---- MODULE Spec2Model ----
(***************************************************************************)
(* Model of src/Student.py: the students table kept by DatabaseManager,    *)
(* the field validation of InputValidator and the form handlers of         *)
(* StudentManagementApp (add, update, delete, load, search).               *)
(*                                                                         *)
(* A string is a sequence of one-character strings.  A timestamp is the    *)
(* number of whole seconds strftime('%Y-%m-%d %H:%M:%S') keeps of the      *)
(* clock: the formatted text orders as that number does.                   *)
(***************************************************************************)
EXTENDS Integers, Sequences, FiniteSets

VARIABLES
    students,         \* rows of table students
    sqlite_sequence,  \* largest rowid AUTOINCREMENT has ever handed out
    tree,             \* column ID (values[0]) of the rows shown in the Treeview, top first
    clock,            \* wall clock, in ticks of 1/TicksPerSecond second
    last,             \* the latest event: the handler, its inputs, its outcome
    assigned,         \* history: every student_id an INSERT has assigned
    removed           \* history: every student_id a DELETE has removed

vars == <<students, sqlite_sequence, tree, clock, last, assigned, removed>>

\* Bounds of the model
MaxId == 2        \* rowids an INSERT may assign
MaxClock == 2     \* ticks the clock may advance
TicksPerSecond == 2

----------------------------------------------------------------------------
\* Characters and Python string helpers

Digits == {"0", "1", "2", "3", "4", "5", "6", "7", "8", "9"}
LowerLetters == {"a", "b", "c", "l", "m", "o", "z"}
UpperLetters == {"A", "B", "C", "L", "M", "O", "Z"}
AsciiLetters == LowerLetters \cup UpperLetters
Whitespace == {" ", "\t", "\n"}

\* str.lower / SQLite's ASCII case folding, one character
Lower(c) ==
    CASE c = "A" -> "a" [] c = "B" -> "b" [] c = "C" -> "c" [] c = "L" -> "l"
      [] c = "M" -> "m" [] c = "O" -> "o" [] c = "Z" -> "z" [] OTHER -> c

RECURSIVE lstrip(_)
lstrip(s) ==
    IF s = <<>> THEN <<>>
    ELSE IF Head(s) \in Whitespace THEN lstrip(Tail(s)) ELSE s

RECURSIVE rstrip(_)
rstrip(s) ==
    IF s = <<>> THEN <<>>
    ELSE IF s[Len(s)] \in Whitespace THEN rstrip(SubSeq(s, 1, Len(s) - 1)) ELSE s

\* str.strip()
strip(s) == rstrip(lstrip(s))

\* re.sub(r'[\s\-()]', '', s)
RECURSIVE strip_phone(_)
strip_phone(s) ==
    IF s = <<>> THEN <<>>
    ELSE IF Head(s) \in Whitespace \cup {"-", "(", ")"}
         THEN strip_phone(Tail(s))
         ELSE <<Head(s)>> \o strip_phone(Tail(s))

\* str.isdigit(): non-empty and every character a digit
isdigit(s) == s # <<>> /\ \A i \in 1..Len(s) : s[i] \in Digits

AllIn(s, lo, hi, class) == \A i \in lo..hi : s[i] \in class

----------------------------------------------------------------------------
\* InputValidator

NameChars == AsciiLetters \cup Digits \cup {"_"} \cup Whitespace \cup {".", "-"}
EmailLocalChars == AsciiLetters \cup Digits \cup {".", "_", "%", "+", "-"}
EmailDomainChars == AsciiLetters \cup Digits \cup {".", "-"}

\* re.match(r'^[\w\s.\-]+$', name)
MatchName(s) == s # <<>> /\ AllIn(s, 1, Len(s), NameChars)

\* the whole of s is  [a-zA-Z0-9._%+-]+ @ [a-zA-Z0-9.-]+ \. [a-zA-Z]{2,}
FullMatchEmail(s) ==
    \E i \in 1..Len(s) : \E j \in 1..Len(s) :
        /\ s[i] = "@" /\ s[j] = "."
        /\ i > 1 /\ j > i + 1 /\ Len(s) - j >= 2
        /\ AllIn(s, 1, i - 1, EmailLocalChars)
        /\ AllIn(s, i + 1, j - 1, EmailDomainChars)
        /\ AllIn(s, j + 1, Len(s), AsciiLetters)

\* re.match(r'^...$', email): $ also matches just before a final newline
MatchEmail(s) ==
    \/ FullMatchEmail(s)
    \/ s # <<>> /\ s[Len(s)] = "\n" /\ FullMatchEmail(SubSeq(s, 1, Len(s) - 1))

validate_name(name) ==
    IF strip(name) = <<>> THEN [ok |-> FALSE, msg |-> "Name cannot be empty."]
    ELSE IF Len(strip(name)) < 2
         THEN [ok |-> FALSE, msg |-> "Name must be at least 2 characters."]
    ELSE IF ~MatchName(name)
         THEN [ok |-> FALSE, msg |-> "Name contains invalid characters."]
    ELSE [ok |-> TRUE, msg |-> ""]

validate_email(email) ==
    IF strip(email) = <<>> THEN [ok |-> FALSE, msg |-> "Email cannot be empty."]
    ELSE IF ~MatchEmail(email)
         THEN [ok |-> FALSE, msg |-> "Invalid email format."]
    ELSE [ok |-> TRUE, msg |-> ""]

validate_phone(phone) ==
    LET p == strip_phone(phone)
    IN  IF ~isdigit(p) \/ ~(10 <= Len(p) /\ Len(p) <= 15)
        THEN [ok |-> FALSE, msg |-> "Phone must be 10-15 digits."]
        ELSE [ok |-> TRUE, msg |-> ""]

validate_pincode(pin) ==
    IF ~isdigit(pin) \/ Len(pin) \notin {5, 6}
    THEN [ok |-> FALSE, msg |-> "Pincode must be 5 or 6 digits."]
    ELSE [ok |-> TRUE, msg |-> ""]

----------------------------------------------------------------------------
\* StudentManagementApp.get_form

\* The ten values get_form returns once the four checks have passed
FormData(name, email, phone, college, department, year, address, city, state, pincode) ==
    [name |-> name, email |-> email, phone |-> phone, college |-> college,
     department |-> department, year |-> year, address |-> address,
     city |-> city, state |-> state, pincode |-> pincode]

\* get_form with the email checked before the name
get_form_email_first(raw) ==
    LET name    == strip(raw.name)
        email   == strip(raw.email)
        phone   == strip_phone(strip(raw.phone))
        pincode == strip(raw.pincode)
        Fail(msg, widget, calls) ==
            [ok |-> FALSE, data |-> <<>>, msg |-> msg, focus |-> widget, calls |-> calls]
    IN  IF ~validate_email(email).ok
        THEN Fail(validate_email(email).msg, "email", <<"email">>)
        ELSE IF ~validate_name(name).ok
        THEN Fail(validate_name(name).msg, "name", <<"email", "name">>)
        ELSE IF ~validate_phone(phone).ok
        THEN Fail(validate_phone(phone).msg, "phone", <<"email", "name", "phone">>)
        ELSE IF ~validate_pincode(pincode).ok
        THEN Fail(validate_pincode(pincode).msg, "pincode",
                  <<"email", "name", "phone", "pincode">>)
        ELSE [ok |-> TRUE,
              data |-> FormData(name, email, phone, strip(raw.college),
                                strip(raw.department), strip(raw.year),
                                strip(raw.address), strip(raw.city),
                                strip(raw.state), pincode),
              msg |-> "", focus |-> "",
              calls |-> <<"email", "name", "phone", "pincode">>]

\* get_form with the phone kept as typed: trimmed, its spaces, hyphens and
\* parentheses left in
get_form_phone_as_typed(raw) ==
    LET name    == strip(raw.name)
        email   == strip(raw.email)
        phone   == strip(raw.phone)
        pincode == strip(raw.pincode)
        Fail(msg, widget, calls) ==
            [ok |-> FALSE, data |-> <<>>, msg |-> msg, focus |-> widget, calls |-> calls]
    IN  IF ~validate_name(name).ok
        THEN Fail(validate_name(name).msg, "name", <<"name">>)
        ELSE IF ~validate_email(email).ok
        THEN Fail(validate_email(email).msg, "email", <<"name", "email">>)
        ELSE IF ~validate_phone(phone).ok
        THEN Fail(validate_phone(phone).msg, "phone", <<"name", "email", "phone">>)
        ELSE IF ~validate_pincode(pincode).ok
        THEN Fail(validate_pincode(pincode).msg, "pincode",
                  <<"name", "email", "phone", "pincode">>)
        ELSE [ok |-> TRUE,
              data |-> FormData(name, email, phone, strip(raw.college),
                                strip(raw.department), strip(raw.year),
                                strip(raw.address), strip(raw.city),
                                strip(raw.state), pincode),
              msg |-> "", focus |-> "",
              calls |-> <<"name", "email", "phone", "pincode">>]

\* raw: the text of the ten entry widgets.  Result: ok, the data dictionary
\* (empty on failure), the text of the error box, the widget given the focus
\* and the validators that were called, in order.
get_form(raw) ==
    LET name       == strip(raw.name)
        email      == strip(raw.email)
        phone      == strip_phone(strip(raw.phone))
        college    == strip(raw.college)
        department == strip(raw.department)
        year       == strip(raw.year)
        address    == strip(raw.address)
        city       == strip(raw.city)
        state      == strip(raw.state)
        pincode    == strip(raw.pincode)
        Fail(msg, widget, calls) ==
            [ok |-> FALSE, data |-> <<>>, msg |-> msg, focus |-> widget, calls |-> calls]
    IN  IF ~validate_name(name).ok
        THEN Fail(validate_name(name).msg, "name", <<"name">>)
        ELSE IF ~validate_email(email).ok
        THEN Fail(validate_email(email).msg, "email", <<"name", "email">>)
        ELSE IF ~validate_phone(phone).ok
        THEN Fail(validate_phone(phone).msg, "phone", <<"name", "email", "phone">>)
        ELSE IF ~validate_pincode(pincode).ok
        THEN Fail(validate_pincode(pincode).msg, "pincode",
                  <<"name", "email", "phone", "pincode">>)
        ELSE [ok |-> TRUE,
              data |-> FormData(name, email, phone, college, department, year,
                                address, city, state, pincode),
              msg |-> "", focus |-> "",
              calls |-> <<"name", "email", "phone", "pincode">>]

\* datetime.now().strftime('%Y-%m-%d %H:%M:%S'): the sub-second part is dropped
strftime(t) == t \div TicksPerSecond

----------------------------------------------------------------------------
\* DatabaseManager

\* One row of table students
Row(id, data, date_added, last_modified) ==
    [student_id |-> id,
     student_name |-> data.name, student_email |-> data.email,
     student_phone |-> data.phone, student_college |-> data.college,
     student_department |-> data.department, student_year |-> data.year,
     student_address |-> data.address, student_city |-> data.city,
     student_state |-> data.state, student_pincode |-> data.pincode,
     date_added |-> date_added, last_modified |-> last_modified]

Ids(tbl) == {r.student_id : r \in tbl}

Max(S) == CHOOSE m \in S : \A x \in S : x <= m

\* The table without idx_students_phone
UniqueIndexesEmailOnly == <<"student_email">>

\* The unique indexes in the order SQLite checks them on INSERT and UPDATE:
\* the index created last (idx_students_phone) is checked first.
UniqueIndexes == <<"student_phone", "student_email">>

IndexValue(column, data) ==
    IF column = "student_email" THEN data.email ELSE data.phone

\* A uniqueness check that also counts the row being updated
UniqueConflictAnyRow(tbl, self, data) ==
    LET Hit(column) == \E r \in tbl : r[column] = IndexValue(column, data)
        hits == {i \in 1..Len(UniqueIndexes) : Hit(UniqueIndexes[i])}
    IN  IF hits = {} THEN ""
        ELSE UniqueIndexes[CHOOSE i \in hits : \A j \in hits : i <= j]

\* The column of the first unique index that a row other than rowid `self`
\* already holds the new value of; "" when the write violates no index.
UniqueConflict(tbl, self, data) ==
    LET Hit(column) == \E r \in tbl : r.student_id # self
                                      /\ r[column] = IndexValue(column, data)
        hits == {i \in 1..Len(UniqueIndexes) : Hit(UniqueIndexes[i])}
    IN  IF hits = {} THEN ""
        ELSE UniqueIndexes[CHOOSE i \in hits : \A j \in hits : i <= j]

\* except sqlite3.IntegrityError of insert_student and update_student: the
\* message of the error names the column whose index failed
IntegrityMessage(column) ==
    IF column = "student_email" THEN "Email already exists."
    ELSE IF column = "student_phone" THEN "Phone already exists."
    ELSE "Integrity error"

\* INTEGER PRIMARY KEY without AUTOINCREMENT: one more than the largest live rowid
NextRowidOfLiveRows(tbl, seq) == IF tbl = {} THEN 1 ELSE Max(Ids(tbl)) + 1

\* INTEGER PRIMARY KEY AUTOINCREMENT: one more than the largest rowid ever used
NextRowid(tbl, seq) == Max({seq} \cup Ids(tbl)) + 1

\* insert_student with the values of city and state bound to each other's column
insert_student_swapped(tbl, seq, data) ==
    LET column == UniqueConflict(tbl, 0, data)
        id     == NextRowid(tbl, seq)
        bound  == [data EXCEPT !.city = data.state, !.state = data.city]
    IN  IF column # ""
        THEN [success |-> FALSE, err |-> IntegrityMessage(column),
              students |-> tbl, sqlite_sequence |-> seq]
        ELSE [success |-> TRUE, err |-> "",
              students |-> tbl \cup {Row(id, bound, data.date_added, data.last_modified)},
              sqlite_sequence |-> id]

insert_student(tbl, seq, data) ==
    LET column == UniqueConflict(tbl, 0, data)
        id     == NextRowid(tbl, seq)
    IN  IF column # ""
        THEN [success |-> FALSE, err |-> IntegrityMessage(column),
              students |-> tbl, sqlite_sequence |-> seq]
        ELSE [success |-> TRUE, err |-> "",
              students |-> tbl \cup {Row(id, data, data.date_added, data.last_modified)},
              sqlite_sequence |-> id]

\* update_student without the test of cur.rowcount
update_student_no_rowcount(tbl, student_id, data) ==
    LET matched == {r \in tbl : r.student_id = student_id}
        column  == UniqueConflict(tbl, student_id, data)
        Set(r)  == Row(r.student_id, data, r.date_added, data.last_modified)
    IN  IF matched # {} /\ column # ""
        THEN [success |-> FALSE, err |-> IntegrityMessage(column), students |-> tbl]
        ELSE [success |-> TRUE, err |-> "",
              students |-> (tbl \ matched) \cup {Set(r) : r \in matched}]

update_student(tbl, student_id, data) ==
    LET matched == {r \in tbl : r.student_id = student_id}
        column  == UniqueConflict(tbl, student_id, data)
        Set(r)  == Row(r.student_id, data, r.date_added, data.last_modified)
    IN  IF matched = {}
        THEN [success |-> FALSE, err |-> "No row updated (ID may not exist).",
              students |-> tbl]
        ELSE IF column # ""
        THEN [success |-> FALSE, err |-> IntegrityMessage(column), students |-> tbl]
        ELSE [success |-> TRUE, err |-> "",
              students |-> (tbl \ matched) \cup {Set(r) : r \in matched}]

delete_student(tbl, student_id) ==
    [success |-> TRUE, err |-> "",
     students |-> {r \in tbl : r.student_id # student_id}]

\* ORDER BY student_id DESC
RECURSIVE OrderByIdDesc(_)
OrderByIdDesc(rows) ==
    IF rows = {} THEN <<>>
    ELSE LET top == CHOOSE r \in rows : \A q \in rows : q.student_id <= r.student_id
         IN  <<top>> \o OrderByIdDesc(rows \ {top})

get_all_students(tbl) == OrderByIdDesc(tbl)

\* SQLite's  text LIKE pattern : % is any run of characters, _ any one
\* character, ASCII letters compare without case
RECURSIVE Like(_, _)
Like(text, pattern) ==
    IF pattern = <<>> THEN text = <<>>
    ELSE IF Head(pattern) = "%"
         THEN Like(text, Tail(pattern)) \/ (text # <<>> /\ Like(Tail(text), pattern))
    ELSE /\ text # <<>>
         /\ Head(pattern) = "_" \/ Lower(Head(pattern)) = Lower(Head(text))
         /\ Like(Tail(text), Tail(pattern))

SearchColumns == {"student_name", "student_email", "student_phone",
                  "student_college", "student_department", "student_city"}

\* search_students with the term as the whole pattern, no % around it
search_students_exact(tbl, term) ==
    OrderByIdDesc({r \in tbl : \E column \in SearchColumns : Like(r[column], term)})

search_students(tbl, term) ==
    LET q == <<"%">> \o term \o <<"%">>
    IN  OrderByIdDesc({r \in tbl : \E column \in SearchColumns : Like(r[column], q)})

----------------------------------------------------------------------------
\* Inputs: what the user may type into the form and the search box

RawNames    == {<<" ", "A", "l">>}
RawEmails   == {<<"a", "@", "b", ".", "c", "o">>, <<"c", "@", "b", ".", "c", "o", " ">>}
RawPhones   == {<<"(", "0", "1", "2", ")", "3", "4", "5", "-", "6", "7", "8", "9">>,
                <<"1", "1", "2", "3", "4", "5", "6", "7", "8", "9">>}
RawPincodes == {<<"1", "2", "3", "4", "5">>, <<"1", "2", "3", "4">>}
RawCollege    == <<"C", "a", "l">>
RawDepartment == <<"B", "i", "o">>
RawYear       == <<"1">>
RawAddress    == <<>>
RawCity       == <<"B", "o", "l">>
RawState      == <<>>

\* The forms submitted under Spec
RawForms ==
    {FormData(n, e, p, RawCollege, RawDepartment, RawYear, RawAddress, RawCity,
              RawState, z) :
        n \in RawNames, e \in RawEmails, p \in RawPhones, z \in RawPincodes}

\* The forms submitted under SpecForm: every field valid or invalid in each way
\* its validator tells apart
FormNames    == {<<" ", "A", "l">>, <<" ", " ">>, <<"A">>, <<"A", "l", "!">>}
FormEmails   == {<<"a", "@", "b", ".", "c", "o">>, <<>>, <<"a", "@", "b", ".", "c">>}
FormPhones   == {<<"(", "0", "1", "2", ")", "3", "4", "5", "-", "6", "7", "8", "9">>,
                 <<"1", "2", "3">>,
                 <<"0", "1", "2", "3", "4", "5", "6", "7", "8", "a">>}
FormPincodes == {<<"1", "2", "3", "4", "5", "6">>, <<"1", "2", "3", "4">>,
                 <<"1", "2", "a", "4", "5">>}

FormInputs ==
    {FormData(n, e, p, RawCollege, RawDepartment, RawYear, RawAddress, RawCity,
              RawState, z) :
        n \in FormNames, e \in FormEmails, p \in FormPhones, z \in FormPincodes}

\* The forms submitted under SpecEntry: values the validators accept only
\* once get_form has trimmed and normalized them, and values they reject
EntryNames    == {<<" ", "A", "l">>, <<"B", "-", "o", " ", "z", ".", "\t">>,
                  <<" ", "A", " ">>}
EntryEmails   == {<<" ", "a", "@", "b", ".", "c", "o", "\n">>, <<"a", "@", "b">>}
EntryPhones   == {<<"(", "0", "1", "2", ")", "3", "4", "5", "-", "6", "7", "8", "9">>,
                  <<" ", "1", "1", " ", "2", "3", "4", "5", " ", "6", "7", "8", "9", "0",
                    "1", "2", "3", "4", " ">>,
                  <<"(", "0", "1", "2", ")", "3", "4", "5">>}
EntryPincodes == {<<" ", "1", "2", "3", "4", "5">>, <<"1", "2", "3", "4", "5", "6">>,
                  <<"1", "2", "3", "4", "5", "6", "7">>}

EntryInputs ==
    {FormData(n, e, p, RawCollege, RawDepartment, RawYear, RawAddress, RawCity,
              RawState, z) :
        n \in EntryNames, e \in EntryEmails, p \in EntryPhones, z \in EntryPincodes}

\* get_form, tabulated over the forms of the model
FormResult == [raw \in RawForms \cup FormInputs \cup EntryInputs |-> get_form(raw)]

EmptyForm == FormData(<<>>, <<>>, <<>>, <<>>, <<>>, <<>>, <<>>, <<>>, <<>>, <<>>)

SearchTerms == {<<>>, <<" ">>, <<"a", "l">>, <<"c", "@">>}

----------------------------------------------------------------------------
\* The latest event

\* op: the handler; sid: the id it is about; raw: the form it read; term: the
\* search text; valid: what get_form returned; msg: the text of the box shown;
\* focus: the entry given the focus; calls: the validators called, in order;
\* called: the DatabaseManager method called; success: what that method returned
Event(op, sid, raw, term, valid, msg, focus, calls, called, success) ==
    [op |-> op, sid |-> sid, raw |-> raw, term |-> term, valid |-> valid,
     msg |-> msg, focus |-> focus, calls |-> calls, called |-> called,
     success |-> success]

\* data['date_added'] = now; data['last_modified'] = now
Stamp(data, date_added, last_modified) ==
    [k \in DOMAIN data \cup {"date_added", "last_modified"} |->
        IF k = "date_added" THEN date_added
        ELSE IF k = "last_modified" THEN last_modified
        ELSE data[k]]

\* values[0] of the rows handed to the Treeview
IdColumn(rows) == [i \in 1..Len(rows) |-> rows[i].student_id]

Init ==
    /\ students = {}
    /\ sqlite_sequence = 0
    /\ tree = <<>>
    /\ clock = 0
    /\ last = Event("init", 0, EmptyForm, <<>>, FALSE, "", "", <<>>, "", FALSE)
    /\ assigned = {}
    /\ removed = {}

\* Time passes between two events
Tick ==
    /\ clock < MaxClock
    /\ clock' = clock + 1
    /\ last' = Event("tick", 0, EmptyForm, <<>>, FALSE, "", "", <<>>, "", FALSE)
    /\ UNCHANGED <<students, sqlite_sequence, tree, assigned, removed>>

\* StudentManagementApp.load_students (button Show All)
load_students ==
    /\ tree' = IdColumn(get_all_students(students))
    /\ last' = Event("load", 0, EmptyForm, <<>>, FALSE, "", "", <<>>, "", FALSE)
    /\ UNCHANGED <<students, sqlite_sequence, clock, assigned, removed>>

\* StudentManagementApp.add_student (button Add)
add_student(raw) ==
    LET f == FormResult[raw]
    IN  IF ~f.ok
        THEN /\ last' = Event("add", 0, raw, <<>>, FALSE, f.msg, f.focus, f.calls, "", FALSE)
             /\ UNCHANGED <<students, sqlite_sequence, tree, clock, assigned, removed>>
        ELSE LET now  == strftime(clock)
                 data == Stamp(f.data, now, now)
                 r    == insert_student(students, sqlite_sequence, data)
             IN  /\ r.success => sqlite_sequence < MaxId
                 /\ students' = r.students
                 /\ sqlite_sequence' = r.sqlite_sequence
                 /\ tree' = IF r.success THEN IdColumn(get_all_students(r.students))
                            ELSE tree
                 /\ assigned' = assigned \cup (Ids(r.students) \ Ids(students))
                 /\ last' = Event("add", 0, raw, <<>>, TRUE,
                                  IF r.success THEN "Student added" ELSE r.err,
                                  "", f.calls, "insert_student", r.success)
                 /\ UNCHANGED <<clock, removed>>

\* The UPDATE of one call of DatabaseManager.update_student, with what the
\* caller does with the outcome: the form handler reloads the table on success
UpdateCall(op, sid, raw, f, reload) ==
    LET data == Stamp(f.data, 0, strftime(clock))
        r    == update_student(students, sid, data)
    IN  /\ students' = r.students
        /\ tree' = IF reload /\ r.success THEN IdColumn(get_all_students(r.students))
                   ELSE tree
        /\ last' = Event(op, sid, raw, <<>>, TRUE,
                         IF r.success THEN "Updated" ELSE r.err, "", f.calls,
                         "update_student", r.success)
        /\ UNCHANGED <<sqlite_sequence, clock, assigned, removed>>

\* StudentManagementApp.update_student (button Update); sel = 0: no row selected
App_update_student(sel, raw) ==
    IF sel = 0
    THEN /\ last' = Event("update", 0, EmptyForm, <<>>, FALSE, "Select a row to update",
                          "", <<>>, "", FALSE)
         /\ UNCHANGED <<students, sqlite_sequence, tree, clock, assigned, removed>>
    ELSE LET sid == tree[sel]
             f   == FormResult[raw]
         IN  IF ~f.ok
             THEN /\ last' = Event("update", sid, raw, <<>>, FALSE, f.msg, f.focus,
                                   f.calls, "", FALSE)
                  /\ UNCHANGED <<students, sqlite_sequence, tree, clock, assigned, removed>>
             ELSE UpdateCall("update", sid, raw, f, TRUE)

\* The DELETE of one call of DatabaseManager.delete_student
DeleteCall(op, sid, reload) ==
    LET r == delete_student(students, sid)
    IN  /\ students' = r.students
        /\ tree' = IF reload /\ r.success THEN IdColumn(get_all_students(r.students))
                   ELSE tree
        /\ removed' = removed \cup (Ids(students) \ Ids(r.students))
        /\ last' = Event(op, sid, EmptyForm, <<>>, FALSE,
                         IF r.success THEN "Student deleted" ELSE r.err, "", <<>>,
                         "delete_student", r.success)
        /\ UNCHANGED <<sqlite_sequence, clock, assigned>>

\* StudentManagementApp.delete_student (button Delete); confirm is the answer
\* to 'Delete selected student?'
App_delete_student(sel, confirm) ==
    IF sel = 0
    THEN /\ last' = Event("delete", 0, EmptyForm, <<>>, FALSE, "Select a row to delete",
                          "", <<>>, "", FALSE)
         /\ UNCHANGED <<students, sqlite_sequence, tree, clock, assigned, removed>>
    ELSE IF ~confirm
    THEN /\ last' = Event("delete", tree[sel], EmptyForm, <<>>, FALSE,
                          "Delete selected student?", "", <<>>, "", FALSE)
         /\ UNCHANGED <<students, sqlite_sequence, tree, clock, assigned, removed>>
    ELSE DeleteCall("delete", tree[sel], TRUE)

\* StudentManagementApp.search_students (key release in the search box)
App_search_students(text) ==
    LET term == strip(text)
    IN  /\ tree' = IF term = <<>> THEN IdColumn(get_all_students(students))
                   ELSE IdColumn(search_students(students, term))
        /\ last' = Event("search", 0, EmptyForm, text, FALSE, "", "", <<>>, "", FALSE)
        /\ UNCHANGED <<students, sqlite_sequence, clock, assigned, removed>>

\* DatabaseManager.update_student and delete_student called with any id by a
\* caller other than this window (a second window on the same management.db):
\* the data has passed get_form, the Treeview of this window is not reloaded
Call_update_student(sid, raw) ==
    /\ FormResult[raw].ok
    /\ UpdateCall("call_update", sid, raw, FormResult[raw], FALSE)

Call_delete_student(sid) == DeleteCall("call_delete", sid, FALSE)

Next ==
    \/ Tick
    \/ load_students
    \/ \E raw \in RawForms : add_student(raw)
    \/ \E sel \in 0..Len(tree) : \E raw \in RawForms : App_update_student(sel, raw)
    \/ \E sel \in 0..Len(tree) : \E confirm \in BOOLEAN : App_delete_student(sel, confirm)
    \/ \E text \in SearchTerms : App_search_students(text)
    \/ \E sid \in 1..MaxId : \E raw \in RawForms : Call_update_student(sid, raw)
    \/ \E sid \in 1..MaxId : Call_delete_student(sid)

Spec == Init /\ [][Next]_vars

\* The form handlers alone, fed every form of FormInputs
NextForm ==
    \/ Tick
    \/ \E raw \in FormInputs : add_student(raw)
    \/ \E sel \in 0..Len(tree) : \E raw \in FormInputs : App_update_student(sel, raw)

SpecForm == Init /\ [][NextForm]_vars

\* Add, Update and Delete pressed in any order, fed every form of EntryInputs
NextEntry ==
    \/ \E raw \in EntryInputs : add_student(raw)
    \/ \E sel \in 0..Len(tree) : \E raw \in EntryInputs : App_update_student(sel, raw)
    \/ \E sel \in 0..Len(tree) : \E confirm \in BOOLEAN : App_delete_student(sel, confirm)

SpecEntry == Init /\ [][NextEntry]_vars

----------------------------------------------------------------------------
\* Vocabulary of the properties

EmailExists == "Email already exists."
PhoneExists == "Phone already exists."
NoRowUpdated == "No row updated (ID may not exist)."

\* The form as submitted: every field trimmed, the phone without spaces,
\* hyphens and parentheses
Normalize(raw) ==
    FormData(strip(raw.name), strip(raw.email), strip_phone(raw.phone),
             strip(raw.college), strip(raw.department), strip(raw.year),
             strip(raw.address), strip(raw.city), strip(raw.state),
             strip(raw.pincode))

Forms == RawForms \cup FormInputs \cup EntryInputs \cup {EmptyForm}

SubmittedOf == [raw \in Forms |-> Normalize(raw)]

Submitted(raw) == SubmittedOf[raw]

\* The ten user fields of a stored row
UserFields(r) ==
    FormData(r.student_name, r.student_email, r.student_phone, r.student_college,
             r.student_department, r.student_year, r.student_address,
             r.student_city, r.student_state, r.student_pincode)

\* Which of name, email, phone, pincode the validators reject, in that order
ValidationOrder == <<"name", "email", "phone", "pincode">>

VerdictsOf ==
    [raw \in Forms |->
        <<validate_name(Normalize(raw).name), validate_email(Normalize(raw).email),
          validate_phone(Normalize(raw).phone), validate_pincode(Normalize(raw).pincode)>>]

Verdicts(raw) == VerdictsOf[raw]

PassesValidation(raw) == \A i \in 1..4 : Verdicts(raw)[i].ok

EmailTaken(rows, email) == \E r \in rows : r.student_email = email
PhoneTaken(rows, phone) == \E r \in rows : r.student_phone = phone

----------------------------------------------------------------------------
\* C1: in every reachable state no two distinct rows of students have the same
\* email and no two distinct rows have the same phone.
C1_UniqueEmailAndPhone ==
    \A r \in students : \A q \in students :
        r # q => /\ r.student_id # q.student_id
                 /\ r.student_email # q.student_email
                 /\ r.student_phone # q.student_phone

\* two rows are stored and a write that collides with one of them was refused
C1_Witness ==
    /\ Cardinality(students) = 2
    /\ last.called \in {"insert_student", "update_student"}
    /\ ~last.success
    /\ last.msg \in {EmailExists, PhoneExists}

\* C2: delete_student called with an id no row has reports an error and
\* leaves the table unchanged.
C2_DeleteAbsentReportsError ==
    [][(last'.called = "delete_student" /\ last'.sid \notin Ids(students))
        => (~last'.success /\ students' = students)]_vars

\* C3: an insert whose email is taken fails with 'Email already exists.'
\* whatever its phone; an insert with a fresh email whose phone is taken fails
\* with 'Phone already exists.'; the table is unchanged in both cases.
C3_InsertConflictNamesEmailFirst ==
    [][last'.called = "insert_student" =>
        LET d  == Submitted(last'.raw)
            ce == EmailTaken(students, d.email)
            cp == PhoneTaken(students, d.phone)
        IN  /\ ce => (~last'.success /\ last'.msg = EmailExists /\ students' = students)
            /\ (~ce /\ cp) =>
                  (~last'.success /\ last'.msg = PhoneExists /\ students' = students)
      ]_vars

\* C4: update_student called with an id no row has fails with 'No row updated
\* (ID may not exist).', changes no row and creates none.
C4_UpdateAbsentNotFound ==
    [][(last'.called = "update_student" /\ last'.sid \notin Ids(students))
        => (~last'.success /\ last'.msg = NoRowUpdated /\ students' = students)]_vars

\* the Update button was pressed on a row that is gone, other rows are stored
\* and the submitted email is the email of one of them
C4_Witness ==
    /\ last.op = "update" /\ last.called = "update_student"
    /\ last.sid \notin Ids(students)
    /\ EmailTaken(students, Submitted(last.raw).email)

\* C5: a successful update of row id sets the ten user fields of that row to
\* the submitted ones, strictly advances its last_modified, keeps its id and
\* date_added and changes no other row.
C5_UpdateAdvancesLastModified ==
    [][(last'.called = "update_student" /\ last'.success) =>
        \E old \in students : \E new \in students' :
            /\ old.student_id = last'.sid /\ new.student_id = last'.sid
            /\ UserFields(new) = Submitted(last'.raw)
            /\ new.last_modified > old.last_modified
            /\ new.date_added = old.date_added
            /\ students' \ {new} = students \ {old}
      ]_vars

\* C6: adding a form that passes validation and collides with no row
\* succeeds; the listing then has exactly one row whose ten user fields are
\* the submitted ones, that row has date_added = last_modified, and every
\* row stored before is still listed unchanged.
C6_AddThenList ==
    [][(/\ last'.op = "add"
        /\ PassesValidation(last'.raw)
        /\ ~EmailTaken(students, Submitted(last'.raw).email)
        /\ ~PhoneTaken(students, Submitted(last'.raw).phone))
        => LET listing == get_all_students(students')
               same    == {i \in 1..Len(listing) :
                              UserFields(listing[i]) = Submitted(last'.raw)}
           IN  /\ last'.success
               /\ Cardinality(same) = 1
               /\ \A i \in same : listing[i].date_added = listing[i].last_modified
               /\ \A r \in students : \E i \in 1..Len(listing) : listing[i] = r
      ]_vars

\* a second row was added from a form whose text had to be trimmed
C6_Witness ==
    /\ last.op = "add" /\ last.success
    /\ Cardinality(students) = 2
    /\ Submitted(last.raw) # last.raw

\* C7: the id of a newly inserted row was never assigned before, and an id
\* removed by a delete is the id of no row ever after.
C7_IdsNeverReused ==
    [][/\ (Ids(students') \ Ids(students)) \cap assigned = {}
       /\ removed' \cap Ids(students') = {}]_vars

\* the row with the highest id was deleted and a row was added after it
C7_Witness ==
    /\ last.op = "add" /\ last.success
    /\ removed # {}
    /\ \A r \in students : \E id \in removed : id < r.student_id
    /\ Max(removed) + 1 \in Ids(students)

\* C8: get_form checks name, email, phone, pincode in this order and stops at
\* the first that fails: the error shown and the entry focused are those of
\* the first invalid field, no later validator is called, and add and update
\* then write nothing.
C8_ValidationOrder ==
    [][(last'.op = "add" \/ (last'.op = "update" /\ last'.sid # 0)) =>
        LET v   == Verdicts(last'.raw)
            bad == {i \in 1..4 : ~v[i].ok}
        IN  IF bad = {}
            THEN last'.valid /\ last'.calls = ValidationOrder
            ELSE LET k == CHOOSE i \in bad : \A j \in bad : i <= j
                 IN  /\ ~last'.valid
                     /\ last'.msg = v[k].msg
                     /\ last'.focus = ValidationOrder[k]
                     /\ last'.calls = SubSeq(ValidationOrder, 1, k)
                     /\ last'.called = ""
                     /\ students' = students
                     /\ sqlite_sequence' = sqlite_sequence
      ]_vars

\* an update of a stored row stopped at the email although the pincode is
\* invalid too
C8_Witness ==
    /\ last.op = "update" /\ last.sid \in Ids(students)
    /\ ~last.valid /\ last.focus = "email"
    /\ ~Verdicts(last.raw)[4].ok

\* C9: searching with the empty term returns the rows that listing returns,
\* in the same order, highest id first; the search box left empty or blank
\* shows that listing.
C9_EmptySearchIsList ==
    LET listing == get_all_students(students)
    IN  /\ search_students(students, <<>>) = listing
        /\ \A i \in 1..Len(listing) : \A j \in 1..Len(listing) :
               i < j => listing[i].student_id > listing[j].student_id
        /\ (last.op = "search" /\ strip(last.term) = <<>>) => tree = IdColumn(listing)

\* two rows are stored and the search box holds a blank
C9_Witness ==
    /\ Cardinality(students) = 2
    /\ last.op = "search" /\ last.term = <<" ">>
    /\ Len(tree) = 2

\* C10: an update of a stored row succeeds when its new email and phone are
\* those of no other row (its own included); it fails with 'Email already
\* exists.' or 'Phone already exists.' only when another row has that email
\* or phone, and then no row changes.
C10_UpdateConflictOtherRow ==
    [][last'.called = "update_student" =>
        LET d      == Submitted(last'.raw)
            others == {r \in students : r.student_id # last'.sid}
            ce     == EmailTaken(others, d.email)
            cp     == PhoneTaken(others, d.phone)
            live   == last'.sid \in Ids(students)
        IN  /\ last'.msg = EmailExists => ce
            /\ last'.msg = PhoneExists => cp
            /\ (live /\ ~ce /\ ~cp) => last'.success
            /\ (live /\ (ce \/ cp)) =>
                  /\ ~last'.success
                  /\ last'.msg \in {EmailExists, PhoneExists}
                  /\ (ce /\ ~cp) => last'.msg = EmailExists
                  /\ (cp /\ ~ce) => last'.msg = PhoneExists
                  /\ students' = students
      ]_vars

\* an update of a stored row was refused because another row has its new email
C10_Witness ==
    /\ last.called = "update_student" /\ ~last.success
    /\ last.sid \in Ids(students)
    /\ last.msg = EmailExists

\* C11: after any sequence of Add, Update and Delete issued through the form,
\* every stored row has a name of at least 2 characters, all of them word
\* characters, whitespace, dots or hyphens; an email of the shape
\* local@domain.tld; a phone of 10 to 15 digits with no space, hyphen or
\* parenthesis; and a pincode of 5 or 6 digits.
C11_StoredRowsValid ==
    \A r \in students :
        /\ Len(r.student_name) >= 2
        /\ \A i \in 1..Len(r.student_name) : r.student_name[i] \in NameChars
        /\ r.student_name = strip(r.student_name)
        /\ FullMatchEmail(r.student_email)
        /\ Len(r.student_phone) \in 10..15
        /\ \A i \in 1..Len(r.student_phone) : r.student_phone[i] \in Digits
        /\ Len(r.student_pincode) \in {5, 6}
        /\ \A i \in 1..Len(r.student_pincode) : r.student_pincode[i] \in Digits

\* after a delete, a row was updated from a form whose name, email and phone
\* were all stored in another form than they were typed
C11_Witness ==
    /\ last.op = "update" /\ last.success
    /\ removed # {}
    /\ \E r \in students :
          /\ r.student_id = last.sid
          /\ r.student_name # last.raw.name
          /\ r.student_email # last.raw.email
          /\ r.student_phone # last.raw.phone

====
